---------------------------- MODULE Spec2Model ----------------------------
(***************************************************************************)
(* Model of the Global Entry appointment notifier                          *)
(* (global_entry_appt_notifier/main.py): the Supervisor loop of __main__,  *)
(* run() with its INIT part and its poll cycle, load_config(), the three   *)
(* upstream query operations and the notifiers; and of the room code       *)
(* generator of the room service (music_controller/api/models.py).         *)
(*                                                                         *)
(* Python values are modelled as follows.  A dict is a sequence of         *)
(* <<key, value>> pairs in insertion order with unique keys.  A JSON value *)
(* is a record with a "type" field.  An upstream HTTP exchange is a record *)
(* [kind |-> "error"] (requests.get or .json() raised) or                  *)
(* [kind |-> "json", body |-> <JSON value>].  A call that may raise        *)
(* returns [raised, exc, result, logs].                                    *)
(***************************************************************************)
EXTENDS Integers, Sequences, FiniteSets, TLC

VARIABLES
    pc,               \* position of the single control thread
    num_restarts,     \* main.py:222
    restart_cooldown, \* main.py:223
    slept,            \* arguments of the time.sleep(restart_cooldown) calls so far
    failure,          \* class of the exception last caught at main.py:230
    pync,             \* whether `import pync` succeeded (main.py:16-19)
    CONFIG,           \* main.py:146
    RECIPIENTS,       \* main.py:153
    notifiers,        \* main.py:149
    last_query,       \* main.py:174
    query,            \* main.py:178
    new_appts,        \* main.py:183
    nidx,             \* position of the for loop of main.py:198
    inputs,           \* .env, config.json and directory exchange read by INIT
    responses,        \* get_appts_by exchanges of the current poll cycle
    invoked,          \* calls of registry entries in the current poll cycle
    effects,          \* log lines, chat posts, popups and pauses of INIT or of the cycle
    reported,         \* history: the appointments handed to a notifier so far,
                      \* kept in the worlds with history |-> TRUE
    rooms,            \* models.py:19-24: the codes of the rows of the Room table
    length,           \* models.py:9: the argument of generate_unique_room_code
    rpc,              \* position of each caller of generate_unique_room_code
    code              \* models.py:13: the local `code` of each caller

roomVars == <<rooms, length, rpc, code>>

vars == <<pc, num_restarts, restart_cooldown, slept, failure, pync, CONFIG,
          RECIPIENTS, notifiers, last_query, query, new_appts, nidx,
          inputs, responses, invoked, effects, reported, rooms, length, rpc,
          code>>

----------------------------------------------------------------------------
(* Bounds of the model. *)

MaxRestarts == 4
PollRestarts == 1
MaxResp == 2

----------------------------------------------------------------------------
(* Python helpers. *)

NoResult == [none |-> TRUE]

Return(v, logs) == [raised |-> FALSE, exc |-> "", result |-> v, logs |-> logs]
Raise(e, logs) == [raised |-> TRUE, exc |-> e, result |-> NoResult, logs |-> logs]

Range(s) == {s[i] : i \in 1..Len(s)}

\* dict lookup helpers on a sequence of <<key, value>> pairs
DictKeys(d) == {d[i][1] : i \in 1..Len(d)}
DictGet(d, k) == d[CHOOSE i \in 1..Len(d) : d[i][1] = k][2]
DictSet(d, k, v) ==
    IF k \in DictKeys(d)
    THEN [i \in 1..Len(d) |-> IF d[i][1] = k THEN <<k, v>> ELSE d[i]]
    ELSE Append(d, <<k, v>>)


----------------------------------------------------------------------------
(* JSON values. *)

JInt(n) == [type |-> "integer", iv |-> n]
JStr(x) == [type |-> "string", sv |-> x]
JBool(b) == [type |-> "boolean", bv |-> b]
JArr(items) == [type |-> "array", items |-> items]
JObj(fields) == [type |-> "object", fields |-> fields]
None == [type |-> "null"]

\* obj[key]: KeyError when the key is absent
HasKey(obj, k) == k \in DictKeys(obj.fields)
\* obj.get(key): None when the key is absent
PyGet(obj, k) == IF HasKey(obj, k) THEN DictGet(obj.fields, k) ELSE None

HttpError == [kind |-> "error"]
HttpJson(body) == [kind |-> "json", body |-> body]

----------------------------------------------------------------------------
(* Data classes. *)

Location(name, id) == [name |-> name, id |-> id]

Appointment(loc, start_time, end_time) ==
    [location |-> loc, start_time |-> start_time, end_time |-> end_time]

\* datetime.fromisoformat: the text of an instant is JStr(n), n the instant
IsIso(j) == j.type = "string" /\ j.sv \in Nat
FromIso(j) == j.sv

----------------------------------------------------------------------------
(* The three query operations. *)

RECURSIVE LocDict(_, _)
\* the loop of main.py:62-68 over items[1..n]: result[loc_id] = Location(...)
LocDict(items, n) ==
    IF n = 0 THEN <<>>
    ELSE DictSet(LocDict(items, n - 1), PyGet(items[n], "id"),
                 Location(PyGet(items[n], "name"), PyGet(items[n], "id")))

get_all_locations(resp) ==
    IF resp.kind = "error" THEN Raise("ConnectionError", <<>>)
    ELSE IF resp.body.type # "array"
    THEN Return(<<>>, <<"get_all_locations: request response is not a list">>)
    ELSE IF \E i \in 1..Len(resp.body.items) : resp.body.items[i].type # "object"
    THEN Raise("AssertionError", <<>>)
    ELSE Return(LocDict(resp.body.items, Len(resp.body.items)), <<>>)

get_locations_with_appts_by(resp) ==
    IF resp.kind = "error" THEN Raise("ConnectionError", <<>>)
    ELSE IF resp.body.type # "array"
    THEN Return(<<>>, <<"get_locations_with_appts_by: request response is not a list">>)
    ELSE IF \E i \in 1..Len(resp.body.items) : resp.body.items[i].type # "object"
    THEN Raise("AssertionError", <<>>)
    ELSE Return([i \in 1..Len(resp.body.items) |->
                    Location(PyGet(resp.body.items[i], "name"),
                             PyGet(resp.body.items[i], "id"))], <<>>)

\* a query that asserts the response to be a list instead of testing it
get_appts_by_strict(loc, resp) ==
    IF resp.kind = "error" THEN Raise("ConnectionError", <<>>)
    ELSE IF resp.body.type # "array" THEN Raise("AssertionError", <<>>)
    ELSE IF \E i \in 1..Len(resp.body.items) : resp.body.items[i].type # "object"
    THEN Raise("AssertionError", <<>>)
    ELSE IF \E i \in 1..Len(resp.body.items) :
                \/ ~IsIso(PyGet(resp.body.items[i], "startTimestamp"))
                \/ ~IsIso(PyGet(resp.body.items[i], "endTimestamp"))
    THEN Raise("TypeError", <<>>)
    ELSE Return([i \in 1..Len(resp.body.items) |->
                    Appointment(loc,
                                FromIso(PyGet(resp.body.items[i], "startTimestamp")),
                                FromIso(PyGet(resp.body.items[i], "endTimestamp")))],
                <<>>)

\* a query that catches the failure of the request and returns nothing
get_appts_by_hardened(loc, resp) ==
    IF resp.kind = "error"
    THEN Return(<<>>, <<"get_appts_by: request failed">>)
    ELSE IF resp.body.type # "array"
    THEN Return(<<>>, <<"get_appts_by: request response is not a list">>)
    ELSE IF \E i \in 1..Len(resp.body.items) : resp.body.items[i].type # "object"
    THEN Raise("AssertionError", <<>>)
    ELSE IF \E i \in 1..Len(resp.body.items) :
                \/ ~IsIso(PyGet(resp.body.items[i], "startTimestamp"))
                \/ ~IsIso(PyGet(resp.body.items[i], "endTimestamp"))
    THEN Raise("TypeError", <<>>)
    ELSE Return([i \in 1..Len(resp.body.items) |->
                    Appointment(loc,
                                FromIso(PyGet(resp.body.items[i], "startTimestamp")),
                                FromIso(PyGet(resp.body.items[i], "endTimestamp")))],
                <<>>)

get_appts_by(loc, resp) ==
    IF resp.kind = "error" THEN Raise("ConnectionError", <<>>)
    ELSE IF resp.body.type # "array"
    THEN Return(<<>>, <<"get_appts_by: request response is not a list">>)
    ELSE IF \E i \in 1..Len(resp.body.items) : resp.body.items[i].type # "object"
    THEN Raise("AssertionError", <<>>)
    ELSE IF \E i \in 1..Len(resp.body.items) :
                \/ ~IsIso(PyGet(resp.body.items[i], "startTimestamp"))
                \/ ~IsIso(PyGet(resp.body.items[i], "endTimestamp"))
    THEN Raise("TypeError", <<>>)
    ELSE Return([i \in 1..Len(resp.body.items) |->
                    Appointment(loc,
                                FromIso(PyGet(resp.body.items[i], "startTimestamp")),
                                FromIso(PyGet(resp.body.items[i], "endTimestamp")))],
                <<>>)

----------------------------------------------------------------------------
(* load_config *)

IsInteger(j) == j.type = "integer"
IsBoolean(j) == j.type = "boolean"
IsIntArray(j) ==
    j.type = "array" /\ \A i \in 1..Len(j.items) : IsInteger(j.items[i])

\* jsonschema: a property constrains the instance only when it is present
IsDateObject(j) ==
    /\ j.type = "object"
    /\ HasKey(j, "year") => IsInteger(DictGet(j.fields, "year"))
    /\ HasKey(j, "month") => IsInteger(DictGet(j.fields, "month"))
    /\ HasKey(j, "day") => IsInteger(DictGet(j.fields, "day"))

\* jsonschema.validate(config, schema) with the schema of main.py:115-130
SchemaValid(config) ==
    /\ config.type = "object"
    /\ HasKey(config, "current_appt_date") =>
           IsDateObject(DictGet(config.fields, "current_appt_date"))
    /\ HasKey(config, "locations") =>
           IsIntArray(DictGet(config.fields, "locations"))
    /\ HasKey(config, "notify_on_macos") =>
           IsBoolean(DictGet(config.fields, "notify_on_macos"))
    /\ HasKey(config, "notify_on_slack") =>
           IsBoolean(DictGet(config.fields, "notify_on_slack"))

\* datetime.date(year, month, day); the length of each month is not modelled
DateOk(y, m, d) == y \in 1..9999 /\ m \in 1..12 /\ d \in 1..31

Config(d, locs, macos, slack) ==
    [current_appt_date |-> d, desired_locations |-> locs,
     notify_on_macos |-> macos, notify_on_slack |-> slack]

\* a filter that keeps the whole directory
FilterLocationsAll(directory, ids) ==
    [i \in 1..Len(directory) |-> directory[i]]

\* [loc for id, loc in directory.items() if id in config["locations"]]
FilterLocations(directory, ids) ==
    SelectSeq([i \in 1..Len(directory) |-> directory[i]],
              LAMBDA kv : kv[1] \in Range(ids))

DesiredLocations(directory, ids) ==
    LET kept == FilterLocations(directory, ids)
    IN  [i \in 1..Len(kept) |-> kept[i][2]]

\* main.py:132-141; file is config.json, resp the exchange of get_all_locations
load_config(file, resp) ==
    IF file.kind = "absent" THEN Raise("FileNotFoundError", <<>>)
    ELSE IF file.kind = "unparsable" THEN Raise("JSONDecodeError", <<>>)
    ELSE IF ~SchemaValid(file.body) THEN Raise("ValidationError", <<>>)
    ELSE
    LET config == file.body
        cad == DictGet(config.fields, "current_appt_date")
        dir == get_all_locations(resp)
    IN  IF ~HasKey(config, "current_appt_date") THEN Raise("KeyError", <<>>)
        ELSE IF ~(HasKey(cad, "year") /\ HasKey(cad, "month") /\ HasKey(cad, "day"))
        THEN Raise("KeyError", <<>>)
        ELSE IF ~DateOk(PyGet(cad, "year").iv, PyGet(cad, "month").iv, PyGet(cad, "day").iv)
        THEN Raise("ValueError", <<>>)
        ELSE IF dir.raised THEN dir
        ELSE IF Len(dir.result) > 0 /\ ~HasKey(config, "locations")
        THEN Raise("KeyError", dir.logs)
        ELSE IF ~HasKey(config, "notify_on_macos") \/ ~HasKey(config, "notify_on_slack")
        THEN Raise("KeyError", dir.logs)
        ELSE Return(Config([year |-> PyGet(cad, "year").iv,
                            month |-> PyGet(cad, "month").iv,
                            day |-> PyGet(cad, "day").iv],
                           IF Len(dir.result) > 0
                           THEN DesiredLocations(dir.result,
                                                 DictGet(config.fields, "locations").items)
                           ELSE <<>>,
                           DictGet(config.fields, "notify_on_macos").bv,
                           DictGet(config.fields, "notify_on_slack").bv),
                    dir.logs)

----------------------------------------------------------------------------
(* Environment secrets and chat recipients (main.py:145, 151-158).          *)
(* An environment key is a sequence of symbols: the word "RECIPIENT", the   *)
(* separator "_" and other words.                                           *)

SlackTokenKey == <<"SLACK", "_", "API", "_", "TOKEN">>

\* key.startswith("RECIPIENT")
IsRecipientKey(key) == Len(key) > 0 /\ key[1] = "RECIPIENT"

HasSeparator(key) == \E i \in 1..Len(key) : key[i] = "_"
FirstSeparator(key) ==
    CHOOSE i \in 1..Len(key) : key[i] = "_" /\ \A j \in 1..(i - 1) : key[j] # "_"

\* key.split('_', 1)[1].replace('_', ' ')
RecipientLabel(key) ==
    LET rest == SubSeq(key, FirstSeparator(key) + 1, Len(key))
    IN  [i \in 1..Len(rest) |-> IF rest[i] = "_" THEN " " ELSE rest[i]]

RECURSIVE RecipientDict(_, _)
\* the dict comprehension of main.py:153 over ENV.items()[1..n]
RecipientDict(env, n) ==
    IF n = 0 THEN <<>>
    ELSE IF IsRecipientKey(env[n][1])
    THEN DictSet(RecipientDict(env, n - 1), RecipientLabel(env[n][1]), env[n][2])
    ELSE RecipientDict(env, n - 1)

Recipients(env) ==
    IF \E i \in 1..Len(env) : IsRecipientKey(env[i][1]) /\ ~HasSeparator(env[i][1])
    THEN Raise("IndexError", <<>>)
    ELSE Return(RecipientDict(env, Len(env)), <<>>)

----------------------------------------------------------------------------
(* Notifiers.  An effect is a line of the log, a chat post or a popup.      *)
(* Only the log lines the properties speak about are recorded: the error    *)
(* lines and the debug line of the base notifier.                           *)

\* a message is a record: a plain text or a digest
Text(t) == [text |-> t]

LogLine(level, msg) == [kind |-> "log", level |-> level, msg |-> msg]
\* a chat post and the answer of the platform to it
ChatPost(to, msg, answer) ==
    [kind |-> "chat", to |-> to, msg |-> msg, answer |-> answer]
Popup(title, msg) == [kind |-> "popup", title |-> title, msg |-> msg]
\* a call of time.sleep during the dispatch
Sleep(secs) == [kind |-> "sleep", secs |-> secs]

ErrorLines(logs) == [i \in 1..Len(logs) |-> LogLine("error", Text(logs[i]))]

\* the outcomes of client.chat_postMessage that send_slack_message tells apart
ChatOutcomes == {"ok", "SlackApiError"}

\* a send that lets the SlackApiError out
send_slack_message_uncaught(recipient, message, outcome) ==
    IF outcome = "ok"
    THEN [raised |-> FALSE, exc |-> "", result |-> TRUE,
          effects |-> <<ChatPost(recipient, message, outcome)>>]
    ELSE [raised |-> TRUE, exc |-> outcome, result |-> NoResult,
          effects |-> <<ChatPost(recipient, message, outcome)>>]

\* main.py:22-29: the post is attempted, a SlackApiError is logged, not raised
send_slack_message(recipient, message, outcome) ==
    IF outcome = "SlackApiError"
    THEN [raised |-> FALSE, exc |-> "", result |-> FALSE,
          effects |-> <<ChatPost(recipient, message, outcome),
                        LogLine("error", Text("Unable to send slack message"))>>]
    ELSE IF outcome = "ok"
    THEN [raised |-> FALSE, exc |-> "", result |-> TRUE,
          effects |-> <<ChatPost(recipient, message, outcome)>>]
    ELSE [raised |-> TRUE, exc |-> outcome, result |-> NoResult,
          effects |-> <<ChatPost(recipient, message, outcome)>>]

RECURSIVE SendToAll(_, _, _, _)
\* for recipient_name, recipient_id in RECIPIENTS.items(): send_slack_message(...)
\* over recipients[1..n]; stops at the first send that raises
SendToAll(recipients, msg, outcomes, n) ==
    IF n = 0 THEN [raised |-> FALSE, exc |-> "", effects |-> <<>>]
    ELSE LET before == SendToAll(recipients, msg, outcomes, n - 1)
             sent == send_slack_message(recipients[n][2], msg, outcomes[n])
         IN  IF before.raised THEN before
             ELSE [raised |-> sent.raised, exc |-> sent.exc,
                   effects |-> before.effects \o sent.effects]

RECURSIVE SendToAllPaced(_, _, _, _)
\* the loop over the recipients with a time.sleep(1) between two sends
SendToAllPaced(recipients, msg, outcomes, n) ==
    IF n = 0 THEN [raised |-> FALSE, exc |-> "", effects |-> <<>>]
    ELSE LET before == SendToAllPaced(recipients, msg, outcomes, n - 1)
             sent == send_slack_message(recipients[n][2], msg, outcomes[n])
             pause == IF n > 1 THEN <<Sleep(1)>> ELSE <<>>
         IN  IF before.raised THEN before
             ELSE [raised |-> sent.raised, exc |-> sent.exc,
                   effects |-> before.effects \o pause \o sent.effects]

\* a chat notifier that pauses between two recipients
slack_notifier_paced(recipients, msg, outcomes) ==
    SendToAllPaced(recipients, msg, outcomes, Len(recipients))

\* main.py:160-165
slack_notifier(recipients, msg, outcomes) ==
    SendToAll(recipients, msg, outcomes, Len(recipients))

\* main.py:149
log_notifier(msg) ==
    [raised |-> FALSE, exc |-> "", effects |-> <<LogLine("debug", msg)>>]

\* main.py:171; pync is unbound when its import failed
macos_notifier(msg, havePync) ==
    IF havePync
    THEN [raised |-> FALSE, exc |-> "",
          effects |-> <<Popup("Global Entry Notifier", msg)>>]
    ELSE [raised |-> TRUE, exc |-> "NameError", effects |-> <<>>]

\* send_notification(notifcation_msg) for one entry of the registry
Invoke(notifier, recipients, msg, outcomes, havePync) ==
    IF notifier = "log" THEN log_notifier(msg)
    ELSE IF notifier = "slack" THEN slack_notifier(recipients, msg, outcomes)
    ELSE macos_notifier(msg, havePync)

\* main.py:188-193; ctime() is kept as the instant it renders
Digest(new) ==
    [header |-> "Here are some newly available Global Entry appointments:",
     items |-> [i \in 1..Len(new) |->
                   [num |-> i - 1, where |-> new[i].location.name,
                    time |-> new[i].start_time]],
     trailer |-> "Visit https://ttp.cbp.dhs.gov/ to schedule a new appointment!"]

StartedMsg == Text("I have started checking for available appointments!")
BackgroundMsg == Text("Checking for appointment in the backgound!")

----------------------------------------------------------------------------
(* run(): the INIT part, main.py:145-174 *)

Unbound == [unbound |-> TRUE]

\* main.py:151-167
SlackSetup(env, outcomes) ==
    IF SlackTokenKey \notin DictKeys(env)
    THEN [raised |-> TRUE, exc |-> "KeyError", recipients |-> <<>>, effects |-> <<>>]
    ELSE LET rec == Recipients(env)
             hello == SendToAll(rec.result, StartedMsg, outcomes, Len(rec.result))
         IN  IF rec.raised
             THEN [raised |-> TRUE, exc |-> rec.exc, recipients |-> <<>>,
                   effects |-> <<>>]
             ELSE [raised |-> hello.raised, exc |-> hello.exc,
                   recipients |-> rec.result, effects |-> hello.effects]

\* main.py:169-171
MacosSetup(havePync) ==
    IF havePync
    THEN [raised |-> FALSE, exc |-> "",
          effects |-> <<Popup("Global Entry Appointment Notifier", BackgroundMsg)>>]
    ELSE [raised |-> TRUE, exc |-> "NameError", effects |-> <<>>]

\* a registry that adds the desktop notifier on the chat flag
NotifierRegistryOnSlackFlag(config) ==
    <<"log">> \o (IF config.notify_on_slack THEN <<"slack">> ELSE <<>>)
              \o (IF config.notify_on_slack THEN <<"macos">> ELSE <<>>)

\* main.py:149, 167, 171
NotifierRegistry(config) ==
    <<"log">> \o (IF config.notify_on_slack THEN <<"slack">> ELSE <<>>)
              \o (IF config.notify_on_macos THEN <<"macos">> ELSE <<>>)

InitFailed(e, fx) ==
    [raised |-> TRUE, exc |-> e, config |-> Unbound, recipients |-> <<>>,
     notifiers |-> <<>>, effects |-> fx]

run_init(env, file, dirResp, outcomes, havePync) ==
    LET cfg == load_config(file, dirResp)
        slack == SlackSetup(env, outcomes)
        macos == MacosSetup(havePync)
        fx0 == ErrorLines(cfg.logs)
        fx1 == IF cfg.result.notify_on_slack THEN fx0 \o slack.effects ELSE fx0
    IN  IF cfg.raised THEN InitFailed(cfg.exc, fx0)
        ELSE IF cfg.result.notify_on_slack /\ slack.raised
        THEN InitFailed(slack.exc, fx1)
        ELSE IF cfg.result.notify_on_macos /\ macos.raised
        THEN InitFailed(macos.exc, fx1)
        ELSE [raised |-> FALSE, exc |-> "", config |-> cfg.result,
              recipients |-> IF cfg.result.notify_on_slack
                             THEN slack.recipients ELSE <<>>,
              notifiers |-> NotifierRegistry(cfg.result),
              effects |-> IF cfg.result.notify_on_macos
                          THEN fx1 \o macos.effects ELSE fx1]

----------------------------------------------------------------------------
(* run(): the poll cycle, main.py:176-208 *)

RECURSIVE FetchAll(_, _, _)
\* main.py:180-181 over locs[1..n]; rs[i] is the exchange for locs[i]
FetchAll(locs, rs, n) ==
    IF n = 0 THEN Return(<<>>, <<>>)
    ELSE LET before == FetchAll(locs, rs, n - 1)
             got == get_appts_by(locs[n], rs[n])
         IN  IF before.raised THEN before
             ELSE IF got.raised THEN Raise(got.exc, before.logs \o got.logs)
             ELSE Return(before.result \o got.result, before.logs \o got.logs)

\* the number of requests made by main.py:180-181: it stops at the first that raises
Requests(locs, rs) ==
    IF \E i \in 1..Len(locs) : get_appts_by(locs[i], rs[i]).raised
    THEN CHOOSE i \in 1..Len(locs) :
            /\ get_appts_by(locs[i], rs[i]).raised
            /\ \A j \in 1..(i - 1) : ~get_appts_by(locs[j], rs[j]).raised
    ELSE Len(locs)

\* a membership test that compares the start time only
NotInByStart(appt, list) ==
    \A i \in 1..Len(list) : list[i].start_time # appt.start_time

\* appt not in last_query: dataclass equality, field by field
NotIn(appt, list) == \A i \in 1..Len(list) : list[i] # appt

\* a sort that leaves the list in the order of the fetch
SortedAsFetched(list) == list

RECURSIVE SortedByStart(_)
\* sorted(..., key=lambda appt: appt.start_time): stable
SortedByStart(list) ==
    IF Len(list) = 0 THEN <<>>
    ELSE LET n == Len(list)
             x == list[n]
             front == SortedByStart(SubSeq(list, 1, n - 1))
             k == Cardinality({i \in 1..Len(front) : front[i].start_time <= x.start_time})
         IN  SubSeq(front, 1, k) \o <<x>> \o SubSeq(front, k + 1, Len(front))

\* main.py:183
NewAppts(q, last) ==
    SortedByStart(SelectSeq(q, LAMBDA appt : NotIn(appt, last)))

----------------------------------------------------------------------------
(* The worlds the program runs in: the files and the upstream exchanges it  *)
(* may meet.                                                                *)

SeqsUpTo(S, n) == UNION {[1..k -> S] : k \in 0..n}

LocItem(id, name) == JObj(<<<<"id", JInt(id)>>, <<"name", JStr(name)>>>>)
SlotItem(s, e) ==
    JObj(<<<<"startTimestamp", JStr(s)>>, <<"endTimestamp", JStr(e)>>>>)

NonList == HttpJson(JObj(<<<<"error", JStr("unavailable")>>>>))
BadList == HttpJson(JArr(<<JStr("x")>>))
NoTimestamps == HttpJson(JArr(<<JObj(<<>>)>>))
ListOf(items) == HttpJson(JArr(items))

DirectoryItems == <<LocItem(1, "JFK"), LocItem(2, "SFO")>>
Slots == {SlotItem(1, 2), SlotItem(1, 3), SlotItem(2, 3)}

ValidDate ==
    JObj(<<<<"year", JInt(2024)>>, <<"month", JInt(3)>>, <<"day", JInt(1)>>>>)

ConfigJson(ids, macos, slack) ==
    [kind |-> "json",
     body |-> JObj(<<<<"current_appt_date", ValidDate>>,
                     <<"locations", JArr(ids)>>,
                     <<"notify_on_macos", JBool(macos)>>,
                     <<"notify_on_slack", JBool(slack)>>>>)]

\* a configuration object without the `locations` field
ConfigNoLocations ==
    [kind |-> "json",
     body |-> JObj(<<<<"current_appt_date", ValidDate>>,
                     <<"notify_on_macos", JBool(FALSE)>>,
                     <<"notify_on_slack", JBool(FALSE)>>>>)]

ConfigAbsent == [kind |-> "absent"]
ConfigUnparsable == [kind |-> "unparsable"]

EnvOf(token, keys) ==
    (IF token THEN <<<<SlackTokenKey, "xoxb">>>> ELSE <<>>) \o keys

KeyJohnDoe == <<"RECIPIENT", "_", "JOHN", "_", "DOE">>
KeyAnn == <<"RECIPIENT", "_", "ANN">>

Id1 == JInt(1)
Id2 == JInt(2)

\* rich appointment data, one configuration
PollWorld ==
    [configFiles |-> {ConfigJson(<<Id1, Id2>>, FALSE, FALSE)},
     envFiles |-> {EnvOf(FALSE, <<>>)},
     directories |-> {ListOf(DirectoryItems)},
     appts |-> [id \in {Id1, Id2} |->
                  IF id = Id1
                  THEN {ListOf(items) : items \in SeqsUpTo(Slots, MaxResp)}
                         \cup {NonList, HttpError}
                  ELSE {ListOf(<<>>), ListOf(<<SlotItem(1, 2)>>)}],
     maxRestarts |-> PollRestarts,
     history |-> FALSE]

\* every notifier configuration, little appointment data
NotifyWorld ==
    [configFiles |-> {ConfigJson(<<Id1>>, macos, slack) : macos, slack \in BOOLEAN},
     envFiles |-> {EnvOf(FALSE, <<<<KeyAnn, "U1">>>>),
                   EnvOf(TRUE, <<>>),
                   EnvOf(TRUE, <<<<KeyAnn, "U1">>>>),
                   EnvOf(TRUE, <<<<KeyJohnDoe, "U2">>, <<KeyAnn, "U1">>>>)},
     directories |-> {ListOf(DirectoryItems)},
     appts |-> [id \in {Id1, Id2} |->
                  {ListOf(<<>>), ListOf(<<SlotItem(1, 2)>>),
                   ListOf(<<SlotItem(2, 3), SlotItem(1, 2)>>), HttpError}],
     maxRestarts |-> PollRestarts,
     history |-> FALSE]

\* every fault of the files and of the upstream service
FaultWorld ==
    [configFiles |-> {ConfigJson(<<Id1, Id2>>, FALSE, FALSE),
                      ConfigJson(<<Id1>>, FALSE, TRUE),
                      ConfigJson(<<Id1>>, TRUE, FALSE),
                      ConfigJson(<<Id1, JStr("two")>>, FALSE, FALSE),
                      ConfigNoLocations, ConfigAbsent, ConfigUnparsable},
     envFiles |-> {EnvOf(FALSE, <<>>), EnvOf(TRUE, <<<<KeyAnn, "U1">>>>)},
     directories |-> {ListOf(DirectoryItems), ListOf(<<>>), NonList, BadList,
                      HttpError},
     appts |-> [id \in {Id1, Id2} |->
                  {ListOf(<<>>), ListOf(<<SlotItem(1, 2)>>), NonList, BadList,
                   NoTimestamps, HttpError}],
     maxRestarts |-> MaxRestarts,
     history |-> FALSE]

Id3 == JInt(3)
Id5 == JInt(5)
DirectoryOfThree == <<LocItem(1, "JFK"), LocItem(2, "SFO"), LocItem(3, "ORD")>>

\* configured ids inside and outside the directory
FilterWorld ==
    [configFiles |-> {ConfigJson(<<Id2, Id5>>, FALSE, FALSE),
                      ConfigJson(<<Id3, Id1>>, FALSE, FALSE),
                      ConfigJson(<<Id5>>, FALSE, FALSE)},
     envFiles |-> {EnvOf(FALSE, <<>>)},
     directories |-> {ListOf(DirectoryOfThree), ListOf(DirectoryItems)},
     appts |-> [id \in {Id1, Id2, Id3} |->
                  {ListOf(<<>>), ListOf(<<SlotItem(1, 2)>>),
                   ListOf(<<SlotItem(2, 3)>>), HttpError}],
     maxRestarts |-> PollRestarts,
     history |-> FALSE]

KeyBare == <<"RECIPIENT">>
KeyPlural == <<"RECIPIENT", "S", "_", "ANN">>
KeyOther == <<"OWNER", "_", "ANN">>

\* environment files with recipient keys of every shape
RecipientWorld ==
    [configFiles |-> {ConfigJson(<<Id1>>, FALSE, TRUE)},
     envFiles |-> {EnvOf(TRUE, <<<<KeyJohnDoe, "U2">>, <<KeyOther, "U3">>>>),
                   EnvOf(TRUE, <<<<KeyAnn, "U1">>, <<KeyPlural, "U4">>>>),
                   EnvOf(TRUE, <<<<KeyBare, "U5">>>>)},
     directories |-> {ListOf(DirectoryItems)},
     appts |-> [id \in {Id1, Id2} |->
                  {ListOf(<<>>), ListOf(<<SlotItem(1, 2)>>), HttpError}],
     maxRestarts |-> PollRestarts,
     history |-> FALSE]

\* failures of INIT and of the poll cycle, again and again
LiveWorld ==
    [configFiles |-> {ConfigJson(<<Id1>>, FALSE, FALSE), ConfigAbsent},
     envFiles |-> {EnvOf(FALSE, <<>>)},
     directories |-> {ListOf(DirectoryItems), HttpError},
     appts |-> [id \in {Id1, Id2} |->
                  {ListOf(<<>>), ListOf(<<SlotItem(1, 2)>>), HttpError}],
     maxRestarts |-> MaxRestarts,
     history |-> FALSE]

\* a service that always has a slot, and a history of what was reported
HistoryWorld ==
    [configFiles |-> {ConfigJson(<<Id1>>, FALSE, FALSE)},
     envFiles |-> {EnvOf(FALSE, <<>>)},
     directories |-> {ListOf(DirectoryItems)},
     appts |-> [id \in {Id1, Id2} |->
                  {ListOf(items) : items \in SeqsUpTo(Slots, MaxResp) \ {<<>>}}
                     \cup {HttpError}],
     maxRestarts |-> PollRestarts,
     history |-> TRUE]

----------------------------------------------------------------------------
(* The state machine. *)

\* __main__ before its first call of run(), main.py:222-223
SupervisorStart ==
    /\ pc = "start"
    /\ num_restarts = 0
    /\ restart_cooldown = 1
    /\ slept = <<>>
    /\ failure = "none"
    /\ pync \in BOOLEAN
    /\ CONFIG = Unbound
    /\ RECIPIENTS = <<>>
    /\ notifiers = <<>>
    /\ last_query = <<>>
    /\ query = <<>>
    /\ new_appts = <<>>
    /\ nidx = 0
    /\ inputs = Unbound
    /\ responses = <<>>
    /\ invoked = <<>>
    /\ effects = <<>>
    /\ reported = {}

\* the notifier runs without the room service
NoRoomService ==
    /\ rooms = {}
    /\ length = 0
    /\ rpc = <<>>
    /\ code = <<>>

Init == SupervisorStart /\ NoRoomService

\* an exception leaves run() and is caught at main.py:230-231
Crash(exc, fx, io, rs) ==
    /\ pc' = "caught"
    /\ failure' = exc
    /\ CONFIG' = Unbound
    /\ RECIPIENTS' = <<>>
    /\ notifiers' = <<>>
    /\ last_query' = <<>>
    /\ query' = <<>>
    /\ new_appts' = <<>>
    /\ nidx' = 0
    /\ inputs' = io
    /\ responses' = rs
    /\ invoked' = <<>>
    /\ effects' = Append(fx, LogLine("error", Text(exc)))
    /\ UNCHANGED <<num_restarts, restart_cooldown, slept, pync>>

\* the reported appointments as a list
AsList(S) == CHOOSE s \in [1..Cardinality(S) -> S] : Range(s) = S

\* an INIT that takes what was reported before as its baseline
StartupFromHistory(W) ==
    /\ pc = "start"
    /\ UNCHANGED <<roomVars, reported>>
    /\ \E env \in W.envFiles, file \in W.configFiles, dirResp \in W.directories :
       \E outcomes \in [1..Len(env) -> ChatOutcomes] :
          LET r == run_init(env, file, dirResp, outcomes, pync)
              io == [env |-> env, file |-> file, dir |-> dirResp]
          IN  /\ r.raised => num_restarts < W.maxRestarts
              /\ IF r.raised THEN Crash(r.exc, r.effects, io, <<>>)
                 ELSE /\ pc' = "poll"
                      /\ CONFIG' = r.config
                      /\ RECIPIENTS' = r.recipients
                      /\ notifiers' = r.notifiers
                      /\ last_query' = AsList(reported)
                      /\ inputs' = io
                      /\ responses' = <<>>
                      /\ effects' = r.effects
                      /\ UNCHANGED <<num_restarts, restart_cooldown, slept, failure,
                                     pync, query, new_appts, nidx, invoked>>

\* main.py:226-229 and 145-174: the Supervisor calls run(), which does INIT
Startup(W) ==
    /\ pc = "start"
    /\ UNCHANGED <<roomVars, reported>>
    /\ \E env \in W.envFiles, file \in W.configFiles, dirResp \in W.directories :
       \E outcomes \in [1..Len(env) -> ChatOutcomes] :
          LET r == run_init(env, file, dirResp, outcomes, pync)
              io == [env |-> env, file |-> file, dir |-> dirResp]
          IN  /\ r.raised => num_restarts < W.maxRestarts
              /\ IF r.raised THEN Crash(r.exc, r.effects, io, <<>>)
                 ELSE /\ pc' = "poll"
                      /\ CONFIG' = r.config
                      /\ RECIPIENTS' = r.recipients
                      /\ notifiers' = r.notifiers
                      /\ last_query' = <<>>
                      /\ inputs' = io
                      /\ responses' = <<>>
                      /\ effects' = r.effects
                      /\ UNCHANGED <<num_restarts, restart_cooldown, slept, failure,
                                     pync, query, new_appts, nidx, invoked>>

\* main.py:177-183: POLL and DIFF
PollCycle(W) ==
    /\ pc = "poll"
    /\ UNCHANGED <<roomVars, reported>>
    /\ LET locs == CONFIG.desired_locations
       IN  \E rs \in [1..Len(locs) -> UNION {W.appts[id] : id \in DOMAIN W.appts}] :
              /\ \A i \in 1..Len(locs) : rs[i] \in W.appts[locs[i].id]
              /\ LET q == FetchAll(locs, rs, Len(locs))
                 IN  /\ q.raised => num_restarts < W.maxRestarts
                     /\ IF q.raised
                        THEN Crash(q.exc, ErrorLines(q.logs), inputs,
                                   SubSeq(rs, 1, Requests(locs, rs)))
                        ELSE /\ pc' = "dispatch"
                             /\ query' = q.result
                             /\ new_appts' = NewAppts(q.result, last_query)
                             /\ nidx' = 1
                             /\ responses' = rs
                             /\ invoked' = <<>>
                             /\ effects' = ErrorLines(q.logs)
                             /\ UNCHANGED <<num_restarts, restart_cooldown, slept,
                                            failure, pync, CONFIG, RECIPIENTS,
                                            notifiers, last_query, inputs>>

\* a notification loop that leaves after its first turn
SendNotificationOnce(W) ==
    /\ pc = "dispatch"
    /\ UNCHANGED roomVars
    /\ Len(new_appts) # 0
    /\ nidx <= Len(notifiers)
    /\ \E outcomes \in [1..Len(RECIPIENTS) -> ChatOutcomes] :
          LET r == Invoke(notifiers[nidx], RECIPIENTS, Digest(new_appts), outcomes, pync)
          IN  /\ ~r.raised
              /\ reported' = IF W.history THEN reported \cup Range(new_appts)
                              ELSE reported
              /\ effects' = effects \o r.effects \o <<Sleep(1)>>
              /\ invoked' = Append(invoked, <<notifiers[nidx], Digest(new_appts)>>)
              /\ nidx' = Len(notifiers) + 1
              /\ UNCHANGED <<pc, num_restarts, restart_cooldown, slept, failure,
                             pync, CONFIG, RECIPIENTS, notifiers, last_query,
                             query, new_appts, inputs, responses>>

\* main.py:198-200: one turn of the notification loop, the call of the entry
\* and the time.sleep(1) after it
SendNotification(W) ==
    /\ pc = "dispatch"
    /\ UNCHANGED roomVars
    /\ Len(new_appts) # 0
    /\ nidx <= Len(notifiers)
    /\ \E outcomes \in [1..Len(RECIPIENTS) -> ChatOutcomes] :
          LET r == Invoke(notifiers[nidx], RECIPIENTS, Digest(new_appts), outcomes, pync)
          IN  /\ r.raised => num_restarts < W.maxRestarts
              /\ reported' = IF W.history /\ ~r.raised
                              THEN reported \cup Range(new_appts) ELSE reported
              /\ IF r.raised
                 THEN Crash(r.exc, effects \o r.effects, inputs, responses)
                 ELSE /\ effects' = effects \o r.effects \o <<Sleep(1)>>
                      /\ invoked' = Append(invoked,
                                           <<notifiers[nidx], Digest(new_appts)>>)
                      /\ nidx' = nidx + 1
                      /\ UNCHANGED <<pc, num_restarts, restart_cooldown, slept,
                                     failure, pync, CONFIG, RECIPIENTS, notifiers,
                                     last_query, query, new_appts, inputs,
                                     responses>>

\* a cycle end that keeps the baseline when nothing was new
AdvanceIfNew ==
    /\ pc = "dispatch"
    /\ UNCHANGED <<roomVars, reported>>
    /\ Len(new_appts) = 0 \/ nidx > Len(notifiers)
    /\ last_query' = IF Len(new_appts) # 0 THEN query ELSE last_query
    /\ pc' = "poll"
    /\ UNCHANGED <<num_restarts, restart_cooldown, slept, failure, pync, CONFIG,
                   RECIPIENTS, notifiers, query, new_appts, nidx, inputs,
                   responses, invoked, effects>>

\* a cycle end that sets the cooldown back to one second
AdvanceResetsCooldown ==
    /\ pc = "dispatch"
    /\ UNCHANGED <<roomVars, reported>>
    /\ Len(new_appts) = 0 \/ nidx > Len(notifiers)
    /\ last_query' = query
    /\ pc' = "poll"
    /\ restart_cooldown' = 1
    /\ UNCHANGED <<num_restarts, slept, failure, pync, CONFIG,
                   RECIPIENTS, notifiers, query, new_appts, nidx, inputs,
                   responses, invoked, effects>>

\* main.py:203-208: ADVANCE and SLEEP
Advance ==
    /\ pc = "dispatch"
    /\ UNCHANGED <<roomVars, reported>>
    /\ Len(new_appts) = 0 \/ nidx > Len(notifiers)
    /\ last_query' = query
    /\ pc' = "poll"
    /\ UNCHANGED <<num_restarts, restart_cooldown, slept, failure, pync, CONFIG,
                   RECIPIENTS, notifiers, query, new_appts, nidx, inputs,
                   responses, invoked, effects>>

\* a wait that uses the cooldown after doubling it
SupervisorSleepDoubled ==
    /\ pc = "caught"
    /\ UNCHANGED <<roomVars, reported>>
    /\ slept' = Append(slept, restart_cooldown * 2)
    /\ pc' = "cooldown"
    /\ UNCHANGED <<num_restarts, restart_cooldown, failure, pync, CONFIG,
                   RECIPIENTS, notifiers, last_query, query, new_appts, nidx,
                   inputs, responses, invoked, effects>>

\* main.py:232-234
SupervisorSleep ==
    /\ pc = "caught"
    /\ UNCHANGED <<roomVars, reported>>
    /\ slept' = Append(slept, restart_cooldown)
    /\ pc' = "cooldown"
    /\ UNCHANGED <<num_restarts, restart_cooldown, failure, pync, CONFIG,
                   RECIPIENTS, notifiers, last_query, query, new_appts, nidx,
                   inputs, responses, invoked, effects>>

\* a Supervisor that gives up instead of looping
SupervisorStop ==
    /\ pc = "cooldown"
    /\ UNCHANGED <<roomVars, reported>>
    /\ restart_cooldown' = restart_cooldown * 2
    /\ num_restarts' = num_restarts + 1
    /\ pc' = "stopped"
    /\ UNCHANGED <<slept, failure, pync, CONFIG, RECIPIENTS, notifiers,
                   last_query, query, new_appts, nidx, inputs, responses,
                   invoked, effects>>

\* a Supervisor that gives up after its second restart
SupervisorRestartCapped ==
    /\ pc = "cooldown"
    /\ UNCHANGED <<roomVars, reported>>
    /\ restart_cooldown' = restart_cooldown * 2
    /\ num_restarts' = num_restarts + 1
    /\ pc' = IF num_restarts < 2 THEN "start" ELSE "stopped"
    /\ UNCHANGED <<slept, failure, pync, CONFIG, RECIPIENTS, notifiers,
                   last_query, query, new_appts, nidx, inputs, responses,
                   invoked, effects>>

\* main.py:236-237 and back to main.py:225
SupervisorRestart ==
    /\ pc = "cooldown"
    /\ UNCHANGED <<roomVars, reported>>
    /\ restart_cooldown' = restart_cooldown * 2
    /\ num_restarts' = num_restarts + 1
    /\ pc' = "start"
    /\ UNCHANGED <<slept, failure, pync, CONFIG, RECIPIENTS, notifiers,
                   last_query, query, new_appts, nidx, inputs, responses,
                   invoked, effects>>

NextIn(W) ==
    \/ Startup(W)
    \/ PollCycle(W)
    \/ SendNotification(W)
    \/ Advance
    \/ SupervisorSleep
    \/ SupervisorRestart

Next == NextIn(PollWorld)
Spec == Init /\ [][Next]_vars

NextNotify == NextIn(NotifyWorld)
SpecNotify == Init /\ [][NextNotify]_vars

NextFault == NextIn(FaultWorld)
SpecFault == Init /\ [][NextFault]_vars

NextRecipients == NextIn(RecipientWorld)
SpecRecipients == Init /\ [][NextRecipients]_vars

\* the one control thread always goes on: every blocking call (a request, a
\* send, time.sleep) returns or raises
NextLive == NextIn(LiveWorld)
SpecLive == Init /\ [][NextLive]_vars /\ WF_vars(NextLive)

NextHistory == NextIn(HistoryWorld)
SpecHistory == Init /\ [][NextHistory]_vars

NextFilter == NextIn(FilterWorld)
SpecFilter == Init /\ [][NextFilter]_vars

----------------------------------------------------------------------------
(* The room service: api/models.py.  A code is a sequence of symbols; the   *)
(* Room table is the set of the codes of its rows (the column is unique).   *)
(* A caller calls generate_unique_room_code(length) and then saves a Room   *)
(* with the code it got.                                                    *)

\* models.py:6: string.ascii_uppercase + string.digits
ROOM_CODE_SYMBOLS ==
    <<"A", "B", "C", "D", "E", "F", "G", "H", "I", "J", "K", "L", "M",
      "N", "O", "P", "Q", "R", "S", "T", "U", "V", "W", "X", "Y", "Z",
      "0", "1", "2", "3", "4", "5", "6", "7", "8", "9">>

\* models.py:13: the values of ''.join(random.choices(ROOM_CODE_SYMBOLS, k=k))
RandomChoices(k) == [1..k -> Range(ROOM_CODE_SYMBOLS)]

\* a uniqueness test that accepts every code
IsUniqueUnchecked(c, table) == TRUE

\* models.py:15: Room.objects.filter(code=code).count() == 0
IsUnique(c, table) == c \notin table

Generating(p) == rpc[p] \in {"sampling", "resampling"}

\* a caller enters generate_unique_room_code(length), models.py:9-12
CallGenerator(p) ==
    /\ rpc[p] = "idle"
    /\ rpc' = [rpc EXCEPT ![p] = "sampling"]
    /\ UNCHANGED <<pc, num_restarts, restart_cooldown, slept, failure, pync,
                   CONFIG, RECIPIENTS, notifiers, last_query, query, new_appts,
                   nidx, inputs, responses, invoked, effects, reported,
                   rooms, length, code>>

\* a generator that writes the row as soon as it has found a free code
generate_and_reserve(p) ==
    /\ Generating(p)
    /\ \E c \in RandomChoices(length) :
          /\ code' = [code EXCEPT ![p] = c]
          /\ rpc' = [rpc EXCEPT ![p] = IF IsUnique(c, rooms) THEN "returned"
                                       ELSE "resampling"]
          /\ rooms' = IF IsUnique(c, rooms) THEN rooms \cup {c} ELSE rooms
    /\ UNCHANGED <<pc, num_restarts, restart_cooldown, slept, failure, pync,
                   CONFIG, RECIPIENTS, notifiers, last_query, query, new_appts,
                   nidx, inputs, responses, invoked, effects, reported,
                   length>>

\* a generator that gives up after one attempt
generate_one_attempt(p) ==
    /\ Generating(p)
    /\ \E c \in RandomChoices(length) :
          /\ code' = [code EXCEPT ![p] = c]
          /\ rpc' = [rpc EXCEPT ![p] = IF IsUnique(c, rooms) THEN "returned"
                                       ELSE "gave up"]
    /\ UNCHANGED <<pc, num_restarts, restart_cooldown, slept, failure, pync,
                   CONFIG, RECIPIENTS, notifiers, last_query, query, new_appts,
                   nidx, inputs, responses, invoked, effects, reported,
                   rooms, length>>

\* models.py:12-16: one turn of the loop of generate_unique_room_code.  The
\* sample is local to the caller, the test reads the table.
generate_unique_room_code(p) ==
    /\ Generating(p)
    /\ \E c \in RandomChoices(length) :
          /\ code' = [code EXCEPT ![p] = c]
          /\ rpc' = [rpc EXCEPT ![p] = IF IsUnique(c, rooms) THEN "returned"
                                       ELSE "resampling"]
    /\ UNCHANGED <<pc, num_restarts, restart_cooldown, slept, failure, pync,
                   CONFIG, RECIPIENTS, notifiers, last_query, query, new_appts,
                   nidx, inputs, responses, invoked, effects, reported,
                   rooms, length>>

\* models.py:19-20: the caller saves a Room with its code; the unique column
\* refuses a code that a row already has
SaveRoom(p) ==
    /\ rpc[p] = "returned"
    /\ IF code[p] \in rooms
       THEN /\ rpc' = [rpc EXCEPT ![p] = "rejected"]
            /\ UNCHANGED rooms
       ELSE /\ rpc' = [rpc EXCEPT ![p] = "stored"]
            /\ rooms' = rooms \cup {code[p]}
    /\ UNCHANGED <<pc, num_restarts, restart_cooldown, slept, failure, pync,
                   CONFIG, RECIPIENTS, notifiers, last_query, query, new_appts,
                   nidx, inputs, responses, invoked, effects, reported,
                   length, code>>

\* the code of k symbols "A"
AllA(k) == [i \in 1..k |-> "A"]

\* the tables a call with length k may meet: empty, one row, a row with the
\* default code "", every code of k symbols but one, every code of k symbols
Tables(k) ==
    {{}, {AllA(k)}, {<<>>}, RandomChoices(k) \ {AllA(k)}, RandomChoices(k)}

Callers == {"c1", "c2"}

\* the lengths of the calls: no symbol and one symbol.  There are 36^k codes
\* of k symbols, and a turn of the loop may draw each of them.
CodeLengths == {0, 1}

\* one caller
RoomWorld == [lengths |-> CodeLengths, callers |-> {"c1"}]

\* two callers at once
RaceWorld == [lengths |-> CodeLengths, callers |-> Callers]

InitRooms(W) ==
    /\ SupervisorStart
    /\ pync = FALSE
    /\ length \in W.lengths
    /\ rooms \in Tables(length)
    /\ rpc = [p \in W.callers |-> "idle"]
    /\ code = [p \in W.callers |-> <<>>]

NextRooms ==
    \/ \E p \in DOMAIN rpc : CallGenerator(p)
    \/ \E p \in DOMAIN rpc : generate_unique_room_code(p)
    \/ \E p \in DOMAIN rpc : SaveRoom(p)

SpecRooms == InitRooms(RoomWorld) /\ [][NextRooms]_vars

SpecRace == InitRooms(RaceWorld) /\ [][NextRooms]_vars

\* random.choices is fair: a caller that samples again and again, with a
\* free code among the samples again and again, draws a free code in the end
FairSampling ==
    \A p \in RoomWorld.callers :
        SF_vars(generate_unique_room_code(p) /\ rpc'[p] = "returned")

SpecRoomsFair == SpecRooms /\ FairSampling

----------------------------------------------------------------------------
(* Properties. *)

JFK == Location(JStr("JFK"), Id1)
ApptA == Appointment(JFK, 1, 2)
ApptB == Appointment(JFK, 1, 3)

SameAppt(a, b) ==
    /\ a.location = b.location
    /\ a.start_time = b.start_time
    /\ a.end_time = b.end_time

IsNew(appt) == \A j \in 1..Len(last_query) : ~SameAppt(appt, last_query[j])

Occurrences(list, x) == Cardinality({i \in 1..Len(list) : list[i] = x})

\* C1: after DIFF the new-appointments list holds exactly the candidates of
\* this cycle that equal no appointment of last_query in location, start_time
\* and end_time, each as often as it was fetched; with last_query [A] and
\* candidates [A, B] it is [B].
C1_DiffIsStructural ==
    pc = "dispatch" =>
        /\ \A i \in 1..Len(new_appts) :
              new_appts[i] \in Range(query) /\ IsNew(new_appts[i])
        /\ \A i \in 1..Len(query) :
              IsNew(query[i]) =>
                  Occurrences(new_appts, query[i]) = Occurrences(query, query[i])
        /\ (last_query = <<ApptA>> /\ query = <<ApptA, ApptB>>) => new_appts = <<ApptB>>

\* the cycle after [A] fetched A again, rebuilt from the response, and B
C1_Witness ==
    /\ pc = "dispatch"
    /\ last_query = <<ApptA>>
    /\ query = <<ApptA, ApptB>>
    /\ new_appts = <<ApptB>>

\* C2: the step that ends a cycle sets last_query to the candidates of that
\* cycle, new or not, and the DIFF of the next cycle is taken against the
\* candidates of the cycle before it (query still holds them at POLL).
C2_BaselineIsLastCycle ==
    [][/\ (pc = "dispatch" /\ pc' = "poll") => last_query' = query
       /\ (pc = "poll" /\ pc' = "dispatch") => new_appts' = NewAppts(query', query)]_vars

\* a cycle that found nothing new ended and left its candidates as baseline
C2_Witness ==
    /\ pc = "poll"
    /\ Len(new_appts) = 0
    /\ Len(query) = 2
    /\ last_query = query

\* the calls a finished notification loop has made: every registry entry once,
\* in registry order, each with the digest of the new appointments
AllInvoked == [i \in 1..Len(notifiers) |-> <<notifiers[i], Digest(new_appts)>>]

Position(name) == CHOOSE i \in 1..Len(notifiers) : notifiers[i] = name

\* C3: in a poll cycle no notifier is called when nothing is new; when
\* something is new the calls made so far are the first registry entries in
\* order, and when the cycle ends every entry was called exactly once with
\* the same digest; the registry starts with log and has chat before desktop.
C3_NotifyIffNew ==
    /\ pc = "dispatch" =>
          /\ Len(new_appts) = 0 => invoked = <<>>
          /\ Len(new_appts) # 0 => invoked = SubSeq(AllInvoked, 1, nidx - 1)
    /\ (pc = "poll" /\ responses # <<>>) =>
          invoked = IF Len(new_appts) # 0 THEN AllInvoked ELSE <<>>
    /\ pc \in {"poll", "dispatch"} =>
          /\ notifiers[1] = "log"
          /\ \A i, j \in 1..Len(notifiers) : i # j => notifiers[i] # notifiers[j]
          /\ {"slack", "macos"} \subseteq Range(notifiers) =>
                Position("slack") < Position("macos")

\* a cycle with a new appointment ended after log, chat and desktop were called
C3_Witness ==
    /\ pc = "poll"
    /\ Len(new_appts) # 0
    /\ notifiers = <<"log", "slack", "macos">>
    /\ Len(invoked) = 3

RECURSIVE Pow2(_)
Pow2(n) == IF n = 0 THEN 1 ELSE 2 * Pow2(n - 1)

\* C4: the k-th wait of the Supervisor lasts 2^(k-1) seconds; when the k-th
\* failure is caught and while the Supervisor waits, the cooldown is still
\* 2^(k-1) and the restart counter still k-1; the step after the wait doubles
\* the cooldown, sets the counter to k and goes back to call run().
C4_Backoff ==
    /\ [](/\ \A k \in 1..Len(slept) : slept[k] = Pow2(k - 1)
          /\ pc = "caught" =>
                Len(slept) = num_restarts /\ restart_cooldown = Pow2(num_restarts)
          /\ pc = "cooldown" =>
                /\ Len(slept) = num_restarts + 1
                /\ restart_cooldown = slept[Len(slept)])
    /\ [][pc = "cooldown" =>
             /\ restart_cooldown' = 2 * slept[Len(slept)]
             /\ num_restarts' = Len(slept)
             /\ pc' = "start"
             /\ CONFIG' = Unbound]_vars

\* four failures were caught: the waits were 1, 2, 4, 8 and the counter is 4
C4_Witness ==
    /\ pc = "start"
    /\ slept = <<1, 2, 4, 8>>
    /\ num_restarts = 4
    /\ restart_cooldown = 16

ConfigErrors == {"FileNotFoundError", "JSONDecodeError", "ValidationError", "KeyError"}

BadConfigFile(file) ==
    file.kind \in {"absent", "unparsable"} \/ ~SchemaValid(file.body)

\* the token is looked up (main.py:152) and is not in .env
MissingSecret(io) ==
    /\ ~BadConfigFile(io.file)
    /\ ~load_config(io.file, io.dir).raised
    /\ load_config(io.file, io.dir).result.notify_on_slack
    /\ SlackTokenKey \notin DictKeys(io.env)

\* C5 as stated: once a configuration error was caught the process neither
\* reaches POLL nor goes back to INIT.
C5_ConfigErrorIsFatal ==
    failure \in ConfigErrors => pc \in {"caught", "cooldown"}

\* C5 as amended: a run whose config.json is absent, unparsable or
\* schema-invalid, or whose required secret is missing, never reaches POLL and
\* ends in a configuration error; the Supervisor then restarts run() from INIT.
C5_RunAbortedThenRetried ==
    /\ []((inputs # Unbound /\ (BadConfigFile(inputs.file) \/ MissingSecret(inputs))) =>
             /\ pc \notin {"poll", "dispatch"}
             /\ failure \in ConfigErrors)
    /\ [][pc = "cooldown" =>
             pc' = "start" /\ num_restarts' = num_restarts + 1]_vars

\* the Supervisor is about to call run() again after a configuration error
C5_Witness ==
    /\ pc = "start"
    /\ num_restarts = 1
    /\ failure \in ConfigErrors
    /\ BadConfigFile(inputs.file) \/ MissingSecret(inputs)

IsNonList(resp) == resp.kind = "json" /\ resp.body.type # "array"

LocationsMissingOrBad(file) ==
    /\ file.kind = "json"
    /\ file.body.type = "object"
    /\ \/ ~HasKey(file.body, "locations")
       \/ ~IsIntArray(DictGet(file.body.fields, "locations"))

\* C6: after INIT read a configuration object that lacks `locations`, or whose
\* `locations` entries are not all integers, no Config value exists, whatever
\* the location directory held.
C6_RejectsBadLocations ==
    (inputs # Unbound /\ LocationsMissingOrBad(inputs.file)) => CONFIG = Unbound

ApptsNotAList ==
    LogLine("error", Text("get_appts_by: request response is not a list"))
DirectoryNotAList ==
    LogLine("error", Text("get_all_locations: request response is not a list"))

Count(list, x) == Cardinality({i \in 1..Len(list) : list[i] = x})

RECURSIVE Remaining(_, _, _)
\* the appointments of the first n locations whose response was an array
Remaining(locs, rs, n) ==
    IF n = 0 THEN <<>>
    ELSE Remaining(locs, rs, n - 1)
            \o (IF IsNonList(rs[n]) THEN <<>> ELSE get_appts_by(locs[n], rs[n]).result)

\* load_config gets as far as the directory request (main.py:138)
ReachesDirectory(file) ==
    /\ ~BadConfigFile(file)
    /\ HasKey(file.body, "current_appt_date")

\* C7: a response that is not an array makes get_appts_by return no
\* appointment and log one error: the cycle goes on with the appointments of
\* the other locations and no failure is caught for it; it makes
\* get_all_locations return an empty directory and log one error, after which
\* INIT goes on with no desired location; get_locations_with_appts_by returns
\* an empty list and one error line.
C7_NonListDegrades ==
    /\ [](/\ pc = "dispatch" =>
                /\ query = Remaining(CONFIG.desired_locations, responses, Len(responses))
                /\ Count(effects, ApptsNotAList)
                      = Cardinality({i \in 1..Len(responses) : IsNonList(responses[i])})
          /\ (pc = "caught" /\ responses # <<>>) =>
                ~IsNonList(responses[Len(responses)])
          /\ (inputs # Unbound /\ IsNonList(inputs.dir)) =>
                /\ pc \in {"poll", "dispatch"} => CONFIG.desired_locations = <<>>
                /\ pc = "caught" =>
                      failure \notin {"ConnectionError", "AssertionError", "TypeError"}
          /\ \A resp \in {NonList, HttpJson(JStr("down")), HttpJson(None)} :
                get_locations_with_appts_by(resp)
                   = Return(<<>>, <<"get_locations_with_appts_by: request response is not a list">>))
    /\ [][(pc = "start" /\ IsNonList(inputs'.dir) /\ ReachesDirectory(inputs'.file)) =>
             Count(effects', DirectoryNotAList) = 1]_vars

\* the first location answered with an object, the second with one slot
C7_Witness ==
    /\ pc = "dispatch"
    /\ Len(responses) = 2
    /\ IsNonList(responses[1])
    /\ Len(query) = 1
    /\ ApptsNotAList \in Range(effects)

\* C8 as stated: no failure is caught for a request that failed.
C8_NetworkFailureDegrades ==
    (pc = "caught" /\ responses # <<>>) => responses[Len(responses)].kind # "error"

\* C8 as amended: a request that fails raises out of the query operation: in
\* a poll cycle it is the last request of the cycle, the cycle is abandoned
\* with no notifier called and the baseline dropped, and the Supervisor has
\* caught a ConnectionError; the same holds for the directory request of INIT.
C8_NetworkFailureIsCaught ==
    /\ \A i \in 1..Len(responses) :
          responses[i].kind = "error" =>
             /\ i = Len(responses)
             /\ pc \in {"caught", "cooldown", "start"}
             /\ failure = "ConnectionError"
             /\ last_query = <<>>
             /\ invoked = <<>>
    /\ (inputs # Unbound /\ inputs.dir.kind = "error" /\ ReachesDirectory(inputs.file)) =>
          /\ pc \in {"caught", "cooldown", "start"}
          /\ failure = "ConnectionError"
          /\ CONFIG = Unbound

\* the request for the second location failed and the failure was caught
C8_Witness ==
    /\ pc = "caught"
    /\ failure = "ConnectionError"
    /\ Len(responses) = 2
    /\ responses[2].kind = "error"

\* the chat posts of the notifier, without the announcements of INIT
DigestPosts ==
    SelectSeq(effects, LAMBDA e : e.kind = "chat" /\ e.msg # StartedMsg)

SendFailedLine == LogLine("error", Text("Unable to send slack message"))

SomePostRejected ==
    \E i \in 1..Len(DigestPosts) : DigestPosts[i].answer = "SlackApiError"

\* C9: when the platform rejected a post of the digest, no failure was caught
\* for it and one error line per rejected post was logged; every recipient
\* was posted the digest once, in order; and when the cycle has ended every
\* notifier of the registry was called and the baseline was advanced.
C9_RejectedPostIsIsolated ==
    SomePostRejected =>
        /\ pc \in {"dispatch", "poll"}
        /\ Len(DigestPosts) = Len(RECIPIENTS)
        /\ \A i \in 1..Len(RECIPIENTS) :
              /\ DigestPosts[i].to = RECIPIENTS[i][2]
              /\ DigestPosts[i].msg = Digest(new_appts)
        /\ Count(effects, SendFailedLine)
              = Cardinality({i \in 1..Len(DigestPosts) :
                                DigestPosts[i].answer = "SlackApiError"})
        /\ nidx > Position("slack")
        /\ pc = "poll" => invoked = AllInvoked /\ last_query = query

\* the post to the first of two recipients was rejected, the second was
\* posted, the desktop notifier ran and the cycle ended
C9_Witness ==
    /\ pc = "poll"
    /\ Len(RECIPIENTS) = 2
    /\ Len(DigestPosts) = 2
    /\ DigestPosts[1].answer = "SlackApiError"
    /\ DigestPosts[2].answer = "ok"
    /\ notifiers = <<"log", "slack", "macos">>
    /\ invoked = AllInvoked
    /\ last_query = query

Flag(name) == DictGet(inputs.file.body.fields, name).bv

CountKind(list, kind) == Cardinality({i \in 1..Len(list) : list[i].kind = kind})

\* C10: after INIT the registry holds the log notifier, the chat notifier
\* exactly when notify_on_slack is true in config.json and the desktop
\* notifier exactly when notify_on_macos is; a finished cycle with
\* notify_on_slack, without notify_on_macos and with one new appointment wrote
\* the digest to the log once, posted it once to each recipient and showed no
\* popup.
C10_RegistryFollowsFlags ==
    pc \in {"poll", "dispatch"} =>
        /\ "log" \in Range(notifiers)
        /\ "slack" \in Range(notifiers) <=> Flag("notify_on_slack")
        /\ "macos" \in Range(notifiers) <=> Flag("notify_on_macos")
        /\ ( /\ Flag("notify_on_slack")
             /\ ~Flag("notify_on_macos")
             /\ Len(new_appts) = 1
             /\ pc = "poll" ) =>
              /\ Count(effects, LogLine("debug", Digest(new_appts))) = 1
              /\ CountKind(effects, "log")
                    = 1 + Count(effects, SendFailedLine)
              /\ Len(DigestPosts) = Len(RECIPIENTS)
              /\ \A i \in 1..Len(RECIPIENTS) :
                    /\ DigestPosts[i].to = RECIPIENTS[i][2]
                    /\ DigestPosts[i].msg = Digest(new_appts)
              /\ CountKind(effects, "chat") = Len(RECIPIENTS)
              /\ CountKind(effects, "popup") = 0

\* such a cycle with two recipients
C10_Witness ==
    /\ pc = "poll"
    /\ notifiers = <<"log", "slack">>
    /\ Len(new_appts) = 1
    /\ Len(RECIPIENTS) = 2
    /\ CountKind(effects, "chat") = 2
    /\ CountKind(effects, "popup") = 0

\* C11: the new appointments are in ascending order of start_time, whatever
\* the order of the fetch, and the digest handed to the notifiers numbers them
\* 0, 1, 2, ... in that order, each with the location name and start time of
\* the appointment at that place.
C11_NewApptsSortedByStart ==
    pc = "dispatch" =>
        /\ \A i, j \in 1..Len(new_appts) :
              i < j => new_appts[i].start_time <= new_appts[j].start_time
        /\ \A k \in 1..Len(invoked) :
              /\ Len(invoked[k][2].items) = Len(new_appts)
              /\ \A i \in 1..Len(new_appts) :
                    invoked[k][2].items[i] =
                       [num |-> i - 1, where |-> new_appts[i].location.name,
                        time |-> new_appts[i].start_time]

\* two new appointments were fetched latest first and a notifier got the digest
C11_Witness ==
    /\ pc = "dispatch"
    /\ Len(query) = 2
    /\ Len(new_appts) = 2
    /\ query[1].start_time > query[2].start_time
    /\ new_appts = <<query[2], query[1]>>
    /\ Len(invoked) = 1

ConfiguredIds == Range(PyGet(inputs.file.body, "locations").items)
DirectoryIds ==
    {PyGet(inputs.dir.body.items[i], "id") : i \in 1..Len(inputs.dir.body.items)}
DesiredIds ==
    {CONFIG.desired_locations[i].id : i \in 1..Len(CONFIG.desired_locations)}

\* C12: once INIT has succeeded, desired_locations holds exactly the
\* directory entries whose id is configured, each once and as the directory
\* gives it; a configured id without a directory entry is left out and INIT
\* raises nothing for it (the only failure met is that of a poll request);
\* and every request and every fetched appointment is for a configured
\* location.
C12_DesiredLocationsAreConfigured ==
    /\ pc = "caught" => (failure = "ConnectionError" /\ Len(responses) > 0)
    /\ pc \in {"poll", "dispatch"} =>
          /\ DesiredIds = DirectoryIds \cap ConfiguredIds
          /\ Len(CONFIG.desired_locations) = Cardinality(DesiredIds)
          /\ \A i \in 1..Len(CONFIG.desired_locations) :
                \E k \in 1..Len(inputs.dir.body.items) :
                   CONFIG.desired_locations[i] =
                      Location(PyGet(inputs.dir.body.items[k], "name"),
                               PyGet(inputs.dir.body.items[k], "id"))
          /\ Len(responses) <= Len(CONFIG.desired_locations)
          /\ \A i \in 1..Len(query) : query[i].location.id \in ConfiguredIds

\* directory {1, 2, 3}, configured [2, 5]: only location 2 is kept and polled
C12_Witness ==
    /\ pc = "dispatch"
    /\ DirectoryIds = {Id1, Id2, Id3}
    /\ PyGet(inputs.file.body, "locations").items = <<Id2, Id5>>
    /\ CONFIG.desired_locations = <<Location(JStr("SFO"), Id2)>>
    /\ Len(responses) = 1
    /\ Len(query) = 1

RecipientKeys == {i \in 1..Len(inputs.env) : IsRecipientKey(inputs.env[i][1])}

\* the key without its first word and the separator after it, the other
\* separators turned into spaces
LabelOf(key) ==
    [i \in 1..(Len(key) - 2) |-> IF key[i + 2] = "_" THEN " " ELSE key[i + 2]]

\* C14: INIT with the chat notifier enabled never fails on a key with the
\* prefix RECIPIENT, and after it every such key has its own recipient, under
\* the label made of the key without the prefix word and the separator after
\* it, mapped to the value of the key; the other keys give no recipient.
C14_EveryRecipientKeyYieldsOne ==
    /\ (pc = "caught" /\ responses = <<>>) => RecipientKeys = {}
    /\ pc \in {"poll", "dispatch"} =>
          /\ Len(RECIPIENTS) = Cardinality(RecipientKeys)
          /\ \A i \in RecipientKeys :
                /\ LabelOf(inputs.env[i][1]) \in DictKeys(RECIPIENTS)
                /\ DictGet(RECIPIENTS, LabelOf(inputs.env[i][1])) = inputs.env[i][2]

\* RECIPIENT_JOHN_DOE gives the label "JOHN DOE", the key OWNER_ANN none
C14_LabelJohnDoe ==
    /\ pc = "poll"
    /\ inputs.env[2][1] = KeyJohnDoe
    /\ RECIPIENTS = <<<<(<<"JOHN", " ", "DOE">>), "U2">>>>

\* C13: a turn of the generator that returns leaves in `code` a string of
\* exactly `length` symbols, each of the 36 symbols A-Z, 0-9, that no row of
\* the table has at the time of the test.
C13_ReturnedCodeIsFresh ==
    [][\A p \in DOMAIN rpc :
          (rpc[p] # "returned" /\ rpc'[p] = "returned") =>
             /\ Len(code'[p]) = length
             /\ \A i \in 1..length : code'[p][i] \in Range(ROOM_CODE_SYMBOLS)
             /\ Cardinality(Range(ROOM_CODE_SYMBOLS)) = 36
             /\ code'[p] \notin rooms]_vars

\* a caller got a one-symbol code while the table held every other one
C13_Witness ==
    /\ length = 1
    /\ rooms = RandomChoices(1) \ {AllA(1)}
    /\ rpc["c1"] = "returned"
    /\ code["c1"] = AllA(1)

\* C15: the generator only reads the table: a turn of its loop, returning or
\* not, leaves the rows as they are, so that the code a caller holds is not
\* kept for it; the row is written by the later save alone, which a caller
\* that holds a code another one has stored in between finds refused.
C15_CheckAndWriteAreApart ==
    [][\A p \in DOMAIN rpc :
          /\ (Generating(p) /\ rpc'[p] # rpc[p]) => rooms' = rooms
          /\ (rpc[p] = "returned" /\ rpc'[p] = "stored") =>
                (code[p] \notin rooms /\ rooms' = rooms \cup {code[p]})
          /\ (rpc[p] = "returned" /\ rpc'[p] = "rejected") =>
                (\E q \in DOMAIN rpc \ {p} :
                    rpc[q] = "stored" /\ code[q] = code[p])]_vars

\* two callers hold the same one-symbol code and neither has stored its room
C15_Witness ==
    /\ DOMAIN rpc = Callers
    /\ length = 1
    /\ rpc["c1"] = "returned"
    /\ rpc["c2"] = "returned"
    /\ code["c1"] = code["c2"]
    /\ code["c1"] \notin rooms

Saturated == RandomChoices(length) \subseteq rooms

\* C16: the loop has no bound on its turns.  A caller in the loop while a
\* code of `length` symbols is free returns in the end, the sampling being
\* fair; a caller in the loop while every such code has a row stays in the
\* loop: no turn returns and none leaves the loop another way.
C16_ReturnsUnlessSaturated ==
    /\ \A p \in RoomWorld.callers :
          (Generating(p) /\ ~Saturated) ~> (rpc[p] = "returned")
    /\ [][\A p \in DOMAIN rpc :
             (Generating(p) /\ Saturated) => Generating(p)']_vars

\* every code of one symbol has a row and the caller has sampled in vain
C16_Witness ==
    /\ length = 1
    /\ Saturated
    /\ rpc["c1"] = "resampling"
    /\ code["c1"] \in rooms

\* C17: the process has no terminal state.  From POLL the Poller reaches the
\* end of the cycle or fails; from the end of a cycle it is back at POLL;
\* after a failure caught by the Supervisor, whatever the number of restarts
\* before it, the Supervisor sleeps and starts INIT again with one restart
\* more; and INIT leads to POLL or to a failure.
C17_NoTerminalState ==
    /\ (pc = "poll") ~> (pc = "dispatch" \/ pc = "caught")
    /\ (pc = "dispatch") ~> (pc = "poll" \/ pc = "caught")
    /\ (pc = "start") ~> (pc = "poll" \/ pc = "caught")
    /\ \A n \in 0..MaxRestarts :
          (pc = "caught" /\ num_restarts = n)
             ~> (pc = "start" /\ num_restarts = n + 1)
    /\ []<>(pc = "poll" \/ pc = "start")

\* INIT is started again after the last failure the model lets happen
C17_Witness ==
    /\ pc = "start"
    /\ num_restarts = MaxRestarts
    /\ Len(slept) = MaxRestarts

ChatPositions == {i \in 1..Len(effects) : effects[i].kind = "chat"}
SleepPositions == {i \in 1..Len(effects) : effects[i].kind = "sleep"}

\* C18 as stated: in the dispatch of a digest, between the post to one
\* recipient and the post to the next one there is a pause.
C18_PauseBetweenRecipients ==
    pc = "dispatch" =>
       \A i, j \in ChatPositions :
          (i < j /\ effects[i].to # effects[j].to) =>
             \E k \in SleepPositions : i < k /\ k < j

\* C18 amended: the pause of one second follows the call of each notifier of
\* the registry, once per notifier called and as the last effect of the
\* call; the posts of the chat notifier to its recipients follow one another
\* with no pause between them.
C18_PauseAfterEachNotifier ==
    pc = "dispatch" =>
       /\ Cardinality(SleepPositions) = Len(invoked)
       /\ \A k \in SleepPositions : effects[k] = Sleep(1)
       /\ Len(invoked) > 0 => Len(effects) \in SleepPositions
       /\ \A i, j \in ChatPositions : \A k \in SleepPositions : ~(i < k /\ k < j)

\* the digest went to two recipients, one post after the other, then the pause
C18_Witness ==
    /\ pc = "dispatch"
    /\ Len(RECIPIENTS) = 2
    /\ \E i \in ChatPositions :
          /\ i + 1 \in ChatPositions
          /\ effects[i].to # effects[i + 1].to
          /\ effects[i].msg = Digest(new_appts)
          /\ effects[i + 1].msg = Digest(new_appts)
          /\ i + 2 \in SleepPositions

\* C19: INIT, first or after a restart, leaves an empty baseline, and in a
\* cycle that meets an empty baseline every appointment fetched is new,
\* those reported before the failure included.
C19_RestartForgetsBaseline ==
    /\ [](pc = "dispatch" /\ last_query = <<>>
             => /\ Range(new_appts) = Range(query)
                /\ Len(new_appts) = Len(query))
    /\ [][(pc = "start" /\ pc' = "poll") => last_query' = <<>>]_vars

\* the first cycle after a restart, nothing sent yet in this run: the
\* appointment at the head of the digest was reported before the failure
C19_Witness ==
    /\ pc = "dispatch"
    /\ num_restarts = 1
    /\ last_query = <<>>
    /\ Len(invoked) = 0
    /\ Len(new_appts) > 0
    /\ new_appts[1] \in reported

\* C20: in every state restart_cooldown = 2^num_restarts; no step lowers the
\* cooldown, and no step of a run (INIT, a poll cycle, a dispatch, the end of
\* a cycle) changes it or the restart count: only the restart of the
\* Supervisor doubles the one and counts the other.  The wait at a failure
\* is then 2^num_restarts, whatever ran before it.
C20_CooldownIsPowerOfRestarts ==
    /\ [](/\ restart_cooldown = Pow2(num_restarts)
          /\ pc = "cooldown" => slept[Len(slept)] = Pow2(num_restarts))
    /\ [][/\ restart_cooldown' >= restart_cooldown
          /\ pc # "cooldown" => /\ restart_cooldown' = restart_cooldown
                                /\ num_restarts' = num_restarts]_vars

\* after two restarts a cycle with an appointment has ended and the
\* cooldown is still 4
C20_Witness ==
    /\ pc = "poll"
    /\ num_restarts = 2
    /\ restart_cooldown = 4
    /\ Len(last_query) > 0

=============================================================================
